---- MODULE Spec2Model ----
(***************************************************************************)
(* radzone.py: the HRC anti-coincidence shield rate plotted over the       *)
(* Chandra mission lifetime with the radiation-zone passages overlaid.     *)
(*                                                                         *)
(* The module models main() as a sequential state machine                  *)
(*   parse_shieldrate -> parse_orbits -> makeplot                          *)
(* and the two time converters, convert_chandra_time (IEEE-754 double      *)
(* arithmetic, modelled bit-exactly) and convert_orbit_time               *)
(* (datetime.strptime with the format "%Y:%j:%H:%M:%S.%f").                *)
(***************************************************************************)
EXTENDS Integers, Sequences, FiniteSets, TLC

(***************************************************************************)
(* Natural numbers of arbitrary size: little-endian sequences of limbs in  *)
(* 0..Base-1 with no high-order zero limb; zero is the empty sequence.     *)
(* (A day count since year 1 in microseconds does not fit 32 bits.)        *)
(***************************************************************************)
LimbBits == 12

Base == 2 ^ LimbBits

RECURSIVE BNorm(_)
BNorm(b) ==
    IF b = <<>> THEN b
    ELSE IF b[Len(b)] = 0 THEN BNorm(SubSeq(b, 1, Len(b) - 1)) ELSE b

LimbAt(b, i) == IF i >= 1 /\ i <= Len(b) THEN b[i] ELSE 0

RECURSIVE FromNat(_)
FromNat(n) == IF n = 0 THEN <<>> ELSE <<n % Base>> \o FromNat(n \div Base)

RECURSIVE BAddC(_, _, _, _, _)
BAddC(a, b, i, c, acc) ==
    IF i > Len(a) /\ i > Len(b)
    THEN (IF c = 1 THEN Append(acc, 1) ELSE acc)
    ELSE LET t == LimbAt(a, i) + LimbAt(b, i) + c
         IN  BAddC(a, b, i + 1, t \div Base, Append(acc, t % Base))

BAdd(a, b) == BAddC(a, b, 1, 0, <<>>)

\* a - b for a >= b
RECURSIVE BSubC(_, _, _, _, _)
BSubC(a, b, i, c, acc) ==
    IF i > Len(a) THEN BNorm(acc)
    ELSE LET t == LimbAt(a, i) - LimbAt(b, i) - c
         IN  BSubC(a, b, i + 1, IF t < 0 THEN 1 ELSE 0,
                   Append(acc, IF t < 0 THEN t + Base ELSE t))

BSub(a, b) == BSubC(a, b, 1, 0, <<>>)

\* a < b, both normalised
BLess(a, b) ==
    IF Len(a) # Len(b) THEN Len(a) < Len(b)
    ELSE \E i \in 1..Len(a) :
            /\ a[i] < b[i]
            /\ \A j \in (i + 1)..Len(a) : a[j] = b[j]

\* a * k for a natural k < 2^19
RECURSIVE BMulC(_, _, _, _, _)
BMulC(a, k, i, c, acc) ==
    IF i > Len(a) /\ c = 0 THEN BNorm(acc)
    ELSE LET t == LimbAt(a, i) * k + c
         IN  BMulC(a, k, i + 1, t \div Base, Append(acc, t % Base))

BMulSmall(a, k) == BMulC(a, k, 1, 0, <<>>)

\* (a \div k, a % k) for a positive k < 2^19: long division from the top limb
RECURSIVE BDivC(_, _, _, _, _)
BDivC(a, k, i, r, acc) ==
    IF i = 0 THEN [q |-> BNorm(acc), r |-> r]
    ELSE LET t == r * Base + a[i]
         IN  BDivC(a, k, i - 1, t % k, <<t \div k>> \o acc)

BDivSmall(a, k) == BDivC(a, k, Len(a), 0, <<>>)

\* a * 2^n
BShl(a, n) ==
    IF a = <<>> \/ n <= 0 THEN a
    ELSE [i \in 1..(n \div LimbBits) |-> 0] \o BMulSmall(a, 2 ^ (n % LimbBits))

\* the number of bits of a: 0 for zero, else 1 + floor(log2(a))
BitLen(a) ==
    IF a = <<>> THEN 0
    ELSE LET top == a[Len(a)]
         IN  LimbBits * (Len(a) - 1)
               + (CHOOSE k \in 1..LimbBits : 2 ^ (k - 1) <= top /\ top < 2 ^ k)

(***************************************************************************)
(* Signed binary fixed-point numbers: [neg, m] is (+/-) m * 2^(-FracBits). *)
(* Every double the program computes is one exactly: the CXC times read    *)
(* are at least 2^25 s (February 1999) and so multiples of 2^-27 s, their  *)
(* differences are multiples of 2^-27 s, a non-zero difference divided by  *)
(* 86400 is above 2^-44 and so a multiple of 2^-96.                        *)
(***************************************************************************)
FracBits == 108

DMake(neg, m) ==
    LET n == BNorm(m)
    IN  [neg |-> neg /\ n # <<>>, m |-> n]

DZero == DMake(FALSE, <<>>)

\* the integer n
DNat(n) == DMake(FALSE, BShl(FromNat(n), FracBits))

DNeg(a) == DMake(~a.neg, a.m)

DAdd(a, b) ==
    IF a.neg = b.neg THEN DMake(a.neg, BAdd(a.m, b.m))
    ELSE IF BLess(a.m, b.m) THEN DMake(b.neg, BSub(b.m, a.m))
    ELSE DMake(a.neg, BSub(a.m, b.m))

DSub(a, b) == DAdd(a, DNeg(b))

DAbs(a) == DMake(FALSE, a.m)

DLess(a, b) == DSub(a, b).neg

DLeq(a, b) == ~DLess(b, a)

DMulSmall(a, k) == DMake(a.neg, BMulSmall(a.m, k))

(***************************************************************************)
(* IEEE-754 binary64 rounding, round-to-nearest ties-to-even, of the value *)
(* (+/-) (m + s) * 2^(-FracBits) where 0 <= s < 1 and sticky says s # 0.   *)
(* The exponent range is not modelled: the program's values are far from   *)
(* overflow and from the subnormals.                                       *)
(***************************************************************************)
MantBits == 53

Round(neg, m, sticky) ==
    LET d == BitLen(m) - MantBits
    IN  IF d <= 0 THEN DMake(neg, m)
        ELSE LET dl   == d \div LimbBits
                 qr   == BDivSmall(SubSeq(m, dl + 1, Len(m)), 2 ^ (d % LimbBits))
                 rem  == BNorm(SubSeq(m, 1, dl) \o <<qr.r>>)
                 half == BShl(<<1>>, d - 1)
                 up   == \/ BLess(half, rem)
                         \/ rem = half /\ (sticky \/ LimbAt(qr.q, 1) % 2 = 1)
             IN  DMake(neg, BShl(IF up THEN BAdd(qr.q, <<1>>) ELSE qr.q, d))

\* the double nearest to the exact value a
RN(a) == Round(a.neg, a.m, FALSE)

FAdd(a, b) == RN(DAdd(a, b))

FSub(a, b) == RN(DSub(a, b))

\* the double nearest to a / k, k a positive integer below 2^19
FDivSmall(a, k) ==
    LET qr == BDivSmall(a.m, k)
    IN  Round(a.neg, qr.q, qr.r # 0)

(***************************************************************************)
(* Text.  A string is a sequence of one-character strings, so that the     *)
(* parsers below read it character by character as the library does.       *)
(***************************************************************************)
DigitChars == <<"0", "1", "2", "3", "4", "5", "6", "7", "8", "9">>

IsDigit(c) == \E n \in 1..10 : DigitChars[n] = c

DigitVal(c) == (CHOOSE n \in 1..10 : DigitChars[n] = c) - 1

\* the length of the run of digits of s that starts at position p
RECURSIVE DigitRun(_, _)
DigitRun(s, p) ==
    IF p <= Len(s) /\ IsDigit(s[p]) THEN 1 + DigitRun(s, p + 1) ELSE 0

\* the number a sequence of digits writes
RECURSIVE NumVal(_)
NumVal(ds) ==
    IF ds = <<>> THEN 0
    ELSE 10 * NumVal(SubSeq(ds, 1, Len(ds) - 1)) + DigitVal(ds[Len(ds)])

(***************************************************************************)
(* datetime.  A datetime is [ordinal, hour, minute, second, microsecond],  *)
(* ordinal being date.toordinal(): day 1 is 0001-01-01.                    *)
(***************************************************************************)
IsLeap(y) == y % 4 = 0 /\ (y % 100 # 0 \/ y % 400 = 0)

DaysInYear(y) == IF IsLeap(y) THEN 366 ELSE 365

\* date(y, 1, 1).toordinal()
YearStartOrdinal(y) ==
    LET p == y - 1
    IN  365 * p + p \div 4 - p \div 100 + p \div 400 + 1

\* date.max.toordinal(), 9999-12-31
MaxOrdinal == YearStartOrdinal(9999) + 364

Datetime(o, h, mi, sec, us) ==
    [ordinal |-> o, hour |-> h, minute |-> mi, second |-> sec, microsecond |-> us]

SecondOfDay(d) == (d.hour * 60 + d.minute) * 60 + d.second

\* d1 <= d2, as datetime compares
DatetimeLeq(d1, d2) ==
    \/ d1.ordinal < d2.ordinal
    \/ /\ d1.ordinal = d2.ordinal
       /\ \/ SecondOfDay(d1) < SecondOfDay(d2)
          \/ /\ SecondOfDay(d1) = SecondOfDay(d2)
             /\ d1.microsecond <= d2.microsecond

(***************************************************************************)
(* datetime.strptime(s, "%Y:%j:%H:%M:%S.%f").  The format compiles to the  *)
(* regular expression                                                      *)
(*   (\d\d\d\d):(36[0-6]|3[0-5]\d|[1-2]\d\d|0[1-9]\d|00[1-9]|[1-9]\d|      *)
(*   0[1-9]|[1-9]):(2[0-3]|[0-1]\d|\d):([0-5]\d|\d):(6[0-1]|[0-5]\d|\d)    *)
(*   \.([0-9]{1,6})                                                        *)
(* matched at the start of s, and the whole of s must be consumed.  Each   *)
(* field is followed by a character that is no digit (or by the end), so   *)
(* a field matches exactly when the whole run of digits at its place has   *)
(* an allowed length and value.  The result is [ok |-> FALSE] for a        *)
(* ValueError, else [ok |-> TRUE, dt |-> the datetime].                    *)
(***************************************************************************)
Failed == [ok |-> FALSE]

\* the field at position p: a run of minLen..maxLen digits writing lo..hi
Field(s, p, minLen, maxLen, lo, hi) ==
    LET n == DigitRun(s, p)
        v == NumVal(SubSeq(s, p, p + n - 1))
    IN  IF n >= minLen /\ n <= maxLen /\ v >= lo /\ v <= hi
        THEN [ok |-> TRUE, val |-> v, len |-> n, next |-> p + n]
        ELSE Failed

Literal(s, p, c) == p <= Len(s) /\ s[p] = c

strptime(s) ==
    LET Y == Field(s, 1, 4, 4, 0, 9999)
    IN  IF ~Y.ok \/ ~Literal(s, Y.next, ":") THEN Failed ELSE
    LET j == Field(s, Y.next + 1, 1, 3, 1, 366)
    IN  IF ~j.ok \/ ~Literal(s, j.next, ":") THEN Failed ELSE
    LET H == Field(s, j.next + 1, 1, 2, 0, 23)
    IN  IF ~H.ok \/ ~Literal(s, H.next, ":") THEN Failed ELSE
    LET M == Field(s, H.next + 1, 1, 2, 0, 59)
    IN  IF ~M.ok \/ ~Literal(s, M.next, ":") THEN Failed ELSE
    LET S == Field(s, M.next + 1, 1, 2, 0, 61)
    IN  IF ~S.ok \/ ~Literal(s, S.next, ".") THEN Failed ELSE
    LET f == Field(s, S.next + 1, 1, 6, 0, 999999)
    IN  IF ~f.ok THEN Failed
        \* "unconverted data remains"
        ELSE IF f.next # Len(s) + 1 THEN Failed
        \* the julian day is counted on from January 1st, into the next
        \* year when the year is shorter
        ELSE LET o == YearStartOrdinal(Y.val) + j.val - 1
             IN  \* datetime(): "year 0 is out of range", "second must be
                 \* in 0..59", a date past 9999-12-31
                 IF Y.val < 1 \/ S.val > 59 \/ o > MaxOrdinal THEN Failed
                 ELSE [ok |-> TRUE,
                       dt |-> Datetime(o, H.val, M.val, S.val,
                                       f.val * 10 ^ (6 - f.len))]

(***************************************************************************)
(* The time converters.                                                    *)
(***************************************************************************)
\* the number of seconds in a UTC day
SEC_PER_DAY == 86400

\* matplotlib.dates.EPOCH_OFFSET, datetime(1970, 1, 1).toordinal(): the
\* plot_date time base is days since 0001-01-01 plus one
EPOCH_OFFSET == YearStartOrdinal(1970)

\* (cxctime - unixtime).total_seconds()
CxcMinusUnixSeconds == (YearStartOrdinal(1998) - YearStartOrdinal(1970)) * SEC_PER_DAY

\* the double ascii.read stores for the decimal field "sec.uuuuuu": the one
\* nearest to (sec * 10^6 + us) / 10^6
ReadFloat(t) ==
    LET n  == BAdd(BMulSmall(BMulSmall(FromNat(t.sec), 1000), 1000), FromNat(t.us))
        q1 == BDivSmall(BShl(n, FracBits), 1000)
        q2 == BDivSmall(q1.q, 1000)
    IN  Round(FALSE, q2.q, q1.r # 0 \/ q2.r # 0)

ReadFloats(col) == [i \in 1..Len(col) |-> ReadFloat(col[i])]

\* epoch2num without the offset of 1970 from year 1: days since 1970
epoch2num_Since1970(e) == FDivSmall(e, SEC_PER_DAY)

\* matplotlib.dates.epoch2num: seconds since 1970 to days since year 1
epoch2num(e) == FAdd(DNat(EPOCH_OFFSET), FDivSmall(e, SEC_PER_DAY))

\* delta_time and plotdate_start for the first raw time
plotdate_start(first) == epoch2num(FAdd(DNat(CxcMinusUnixSeconds), first))

\* chandratime_at without the subtraction of the first time
chandratime_at_NoAnchor(x, first) ==
    FAdd(FDivSmall(x, SEC_PER_DAY), plotdate_start(first))

\* (np.asarray(rawtimes) - rawtimes[0]) / 86400. + plotdate_start, one element
chandratime_at(x, first) ==
    FAdd(FDivSmall(FSub(x, first), SEC_PER_DAY), plotdate_start(first))

\* [ok |-> FALSE, exc |-> ...] when the call raises, else [ok |-> TRUE, val |-> ...]
Raise(e) == [ok |-> FALSE, exc |-> e]

Return(v) == [ok |-> TRUE, val |-> v]

\* convert_chandra_time anchored at the second time instead of the first
convert_chandra_time_NextAnchor(rawtimes) ==
    IF Len(rawtimes) < 2 THEN Raise("IndexError")
    ELSE Return([i \in 1..Len(rawtimes) |-> chandratime_at(rawtimes[i], rawtimes[2])])

convert_chandra_time(rawtimes) ==
    IF Len(rawtimes) = 0 THEN Raise("IndexError")
    ELSE Return([i \in 1..Len(rawtimes) |-> chandratime_at(rawtimes[i], rawtimes[1])])

\* the loop of convert_orbit_time skipping the times that do not parse
RECURSIVE convert_orbit_loop_Skip(_, _, _)
convert_orbit_loop_Skip(rawtimes, i, orbittime) ==
    IF i > Len(rawtimes) THEN Return(orbittime)
    ELSE LET t == strptime(rawtimes[i])
         IN  convert_orbit_loop_Skip(rawtimes, i + 1,
                                     IF t.ok THEN Append(orbittime, t.dt) ELSE orbittime)

\* the loop of convert_orbit_time inserting at the front of the list
RECURSIVE convert_orbit_loop_Prepend(_, _, _)
convert_orbit_loop_Prepend(rawtimes, i, orbittime) ==
    IF i > Len(rawtimes) THEN Return(orbittime)
    ELSE LET t == strptime(rawtimes[i])
         IN  IF ~t.ok THEN Raise("ValueError")
             ELSE convert_orbit_loop_Prepend(rawtimes, i + 1, <<t.dt>> \o orbittime)

\* the loop of convert_orbit_time from index i on, orbittime being the list
\* built so far
RECURSIVE convert_orbit_loop(_, _, _)
convert_orbit_loop(rawtimes, i, orbittime) ==
    IF i > Len(rawtimes) THEN Return(orbittime)
    ELSE LET t == strptime(rawtimes[i])
         IN  IF ~t.ok THEN Raise("ValueError")
             ELSE convert_orbit_loop(rawtimes, i + 1, Append(orbittime, t.dt))

convert_orbit_time(rawtimes) == convert_orbit_loop(rawtimes, 1, <<>>)

(***************************************************************************)
(* Inputs.                                                                 *)
(***************************************************************************)
\* the digits of n, zero-padded to width w
RECURSIVE Pad(_, _)
Pad(n, w) ==
    IF w <= 1 /\ n < 10 THEN <<DigitChars[n + 1]>>
    ELSE Pad(n \div 10, w - 1) \o <<DigitChars[(n % 10) + 1]>>

\* a time of the orbit table, each field zero-padded to the given width
Stamp(y, doy, h, mi, sec, us, wj, wt, wf) ==
    Pad(y, 4) \o <<":">> \o Pad(doy, wj) \o <<":">> \o Pad(h, wt) \o <<":">>
      \o Pad(mi, wt) \o <<":">> \o Pad(sec, wt) \o <<".">> \o Pad(us, wf)

\* YYYY:DOY:HH:MM:SS.ffffff
FixedStamp(y, doy, h, mi, sec, us) == Stamp(y, doy, h, mi, sec, us, 3, 2, 6)

\* s with the character at position p replaced by c
WithChar(s, p, c) == [s EXCEPT ![p] = c]

SeqsUpTo(S, n) == UNION {[1..k -> S] : k \in 0..n}

\* the most rows a rate file / the orbit table holds in the runs of main
MaxRateRows == 2

MaxFullRows == 1

MaxOrbitRows == 2

\* the rows of one longer orbit table, all well-formed
LongRows == 5

\* the most elements of an argument of a converter called on its own
MaxTimes == 3

\* rows of a rate file: the time "sec.uuuuuu" in CXC seconds and the rate
RateRows ==
    { [times |-> [sec |-> 63300467, us |-> 271000], val |-> 3000],
      [times |-> [sec |-> 63300767, us |-> 771000], val |-> 70000] }

GoodEntry == FixedStamp(2000, 3, 15, 27, 47, 271000)

GoodExit == FixedStamp(2000, 4, 2, 10, 5, 0)

\* rows of the orbit table: a well-formed one, one whose fields are not
\* zero-padded, one with a wrong delimiter in the entry, one with second 60
\* in the exit
OrbitRows ==
    { [start_radzone |-> GoodEntry, stop_radzone |-> GoodExit],
      [start_radzone |-> Stamp(2000, 9, 1, 2, 3, 5, 1, 1, 1),
       stop_radzone  |-> Stamp(2000, 10, 0, 0, 0, 271, 3, 2, 3)],
      [start_radzone |-> WithChar(GoodEntry, 5, "-"), stop_radzone |-> GoodExit],
      [start_radzone |-> GoodEntry,
       stop_radzone  |-> FixedStamp(2000, 4, 2, 10, 60, 0)] }

OrbitTables ==
    SeqsUpTo(OrbitRows, MaxOrbitRows)
      \cup {[i \in 1..LongRows |->
               [start_radzone |-> FixedStamp(2000, 3 * i, 15, 27, 47, 271000),
                stop_radzone  |-> FixedStamp(2000, 3 * i + 1, 2, 10, 5, 0)]]}

\* decimal CXC times a converter is called on
CxcSamples ==
    { [sec |-> 63300467, us |-> 271000], [sec |-> 63300467, us |-> 271001],
      [sec |-> 63300767, us |-> 771000], [sec |-> 33554432, us |-> 1],
      [sec |-> 700000000, us |-> 123000] }

\* strings convert_orbit_time is called on
OrbitStrings ==
    { GoodEntry, GoodExit,
      FixedStamp(2001, 366, 12, 0, 0, 0), FixedStamp(2002, 1, 0, 0, 0, 0),
      Stamp(2000, 9, 1, 2, 3, 5, 1, 1, 1),
      WithChar(GoodEntry, 5, "-"), WithChar(GoodEntry, 2, "a"),
      FixedStamp(2000, 4, 2, 10, 60, 0) }

\* instants (year, day of year, time of day, microsecond) given in both
\* encodings
Instants ==
    [y : {1999, 2000, 2020}, doy : {3, 200, 365},
     tod : {<<0, 0, 0>>, <<15, 27, 47>>, <<23, 59, 59>>},
     us : {0, 1, 271000, 500000, 999999}]

\* the calendar string of an instant
InstantString(t) == FixedStamp(t.y, t.doy, t.tod[1], t.tod[2], t.tod[3], t.us)

\* the decimal CXC time of an instant: seconds since 1998-01-01T00:00:00
InstantCxc(t) ==
    [sec |-> (YearStartOrdinal(t.y) + t.doy - 1 - YearStartOrdinal(1998)) * SEC_PER_DAY
               + (t.tod[1] * 60 + t.tod[2]) * 60 + t.tod[3],
     us  |-> t.us]

(***************************************************************************)
(* The program.                                                            *)
(***************************************************************************)
F5min == "msids/2SHEV1RT_5min.csv"

FFull == "msids/2SHEV1RT_full.csv"

FOrbit == "spacecraft_events/orbit_table.csv"

FileNames == {F5min, FFull, FOrbit}

\* the SCS 107 threshold drawn by makeplot, counts per second
Threshold == 65000

VARIABLES
    files,       \* the files that exist (os.path.isfile)
    csv5,        \* the rows of the 5-minute rate file
    csvFull,     \* the rows of the full-resolution rate file
    csvOrbit,    \* the rows of the orbit table
    pc,          \* where main() is
    parsed,      \* the files ascii.read has been called on
    stdout,      \* the messages printed
    status,      \* the exit status, -1 while the process runs
    exc,         \* the exception that ended the process, "" for none
    fivemin,     \* parse_shieldrate's tables
    full,
    msid,        \* parse_orbits' table
    shieldrate,  \* the record parse_shieldrate returns
    orbit,       \* the record parse_orbits returns
    marks,       \* the artists drawn on the chart, in order
    legend,      \* the labels ax.legend() shows
    call,        \* a converter called on its own: the call
    ret          \* and its result

vars == <<files, csv5, csvFull, csvOrbit, pc, parsed, stdout, status, exc,
          fivemin, full, msid, shieldrate, orbit, marks, legend, call, ret>>

inputs == <<files, csv5, csvFull, csvOrbit>>

harness == <<call, ret>>

NoFivemin == [times |-> <<>>, midvals |-> <<>>]

NoFull == [times |-> <<>>, vals |-> <<>>]

\* the record parse_shieldrate returns
Shieldrate(time, rate, fulltimes, fullrate) ==
    ("Time" :> time) @@ ("Rate" :> rate)
      @@ ("Full Time" :> fulltimes) @@ ("Full Rate" :> fullrate)

\* the record parse_orbits returns
Orbit(radzone_entry, radzone_exit) ==
    ("Radzone Entry" :> radzone_entry) @@ ("Radzone Exit" :> radzone_exit)

NoMsid == [start_radzone |-> <<>>, stop_radzone |-> <<>>]

NoShieldrate == Shieldrate(<<>>, <<>>, <<>>, <<>>)

NoOrbit == Orbit(<<>>, <<>>)

InitProgram ==
    /\ pc = "main"
    /\ parsed = {}
    /\ stdout = <<>>
    /\ status = -1
    /\ exc = ""
    /\ fivemin = NoFivemin
    /\ full = NoFull
    /\ msid = NoMsid
    /\ shieldrate = NoShieldrate
    /\ orbit = NoOrbit
    /\ marks = <<>>
    /\ legend = <<>>

Init ==
    /\ files \in SUBSET FileNames
    /\ csv5 \in IF F5min \in files THEN SeqsUpTo(RateRows, MaxRateRows) ELSE {<<>>}
    /\ csvFull \in IF FFull \in files THEN SeqsUpTo(RateRows, MaxFullRows) ELSE {<<>>}
    /\ csvOrbit \in IF FOrbit \in files THEN OrbitTables ELSE {<<>>}
    /\ InitProgram
    /\ call = [fn |-> "none"]
    /\ ret = [done |-> FALSE]

\* sys.exit() with no status after print(msg)
Exit1_Status0(msg) ==
    /\ stdout' = Append(stdout, msg)
    /\ status' = 0
    /\ pc' = "exited"

\* sys.exit(1) after print(msg)
Exit1(msg) ==
    /\ stdout' = Append(stdout, msg)
    /\ status' = 1
    /\ pc' = "exited"

\* an exception nothing catches: the interpreter prints the traceback and
\* the process ends with status 1
Uncaught(e) ==
    /\ exc' = e
    /\ status' = 1
    /\ pc' = "exited"

\* ascii.read of the 5-minute rate file: the columns times and midvals
ReadFivemin(rows) ==
    [times   |-> ReadFloats([i \in 1..Len(rows) |-> rows[i].times]),
     midvals |-> [i \in 1..Len(rows) |-> rows[i].val]]

\* ascii.read of the full-resolution rate file: the columns times and vals
ReadFull(rows) ==
    [times |-> ReadFloats([i \in 1..Len(rows) |-> rows[i].times]),
     vals  |-> [i \in 1..Len(rows) |-> rows[i].val]]

\* ascii.read of the orbit table: the columns start_radzone and stop_radzone

ReadOrbits(rows) ==
    [start_radzone |-> [i \in 1..Len(rows) |-> rows[i].start_radzone],
     stop_radzone  |-> [i \in 1..Len(rows) |-> rows[i].stop_radzone]]

\* parse_shieldrate, both files found: the two ascii.read calls
ShieldrateRead ==
    /\ pc = "main"
    /\ F5min \in files /\ FFull \in files
    /\ fivemin' = ReadFivemin(csv5)
    /\ full' = ReadFull(csvFull)
    /\ parsed' = parsed \cup {F5min, FFull}
    /\ stdout' = Append(stdout, "Shieldrate MSID parsed")
    /\ pc' = "shieldrate"
    /\ UNCHANGED <<inputs, status, exc, msid, shieldrate, orbit, marks, legend, harness>>

\* parse_shieldrate, a file missing, reading the one that is there before
\* the exit
ShieldrateMissing_ReadsFirst ==
    /\ pc = "main"
    /\ ~(F5min \in files /\ FFull \in files)
    /\ parsed' = parsed \cup ({F5min, FFull} \cap files)
    /\ stdout' = Append(stdout, "I can't find both of the MSIDs needed")
    /\ status' = 1
    /\ pc' = "exited"
    /\ UNCHANGED <<inputs, exc, fivemin, full, msid, shieldrate, orbit,
                   marks, legend, harness>>

\* parse_shieldrate, a file missing
ShieldrateMissing ==
    /\ pc = "main"
    /\ ~(F5min \in files /\ FFull \in files)
    /\ Exit1("I can't find both of the MSIDs needed")
    /\ UNCHANGED <<inputs, parsed, exc, fivemin, full, msid, shieldrate, orbit,
                   marks, legend, harness>>

\* parse_shieldrate, the rest: the columns, the two conversions, the record
ShieldrateConvert ==
    /\ pc = "shieldrate"
    /\ LET time      == convert_chandra_time(fivemin.times)
           fulltimes == convert_chandra_time(full.times)
       IN  IF ~time.ok THEN Uncaught(time.exc) /\ UNCHANGED <<shieldrate, stdout>>
           ELSE IF ~fulltimes.ok
           THEN Uncaught(fulltimes.exc) /\ UNCHANGED <<shieldrate, stdout>>
           ELSE /\ shieldrate' = Shieldrate(time.val, fivemin.midvals,
                                             fulltimes.val, full.vals)
                /\ pc' = "orbits"
                /\ UNCHANGED <<status, exc, stdout>>
    /\ UNCHANGED <<inputs, parsed, fivemin, full, msid, orbit, marks, legend, harness>>

\* parse_orbits, the file found: ascii.read
OrbitsRead ==
    /\ pc = "orbits"
    /\ FOrbit \in files
    /\ msid' = ReadOrbits(csvOrbit)
    /\ parsed' = parsed \cup {FOrbit}
    /\ stdout' = Append(stdout, "Spacecraft orbits parsed")
    /\ pc' = "orbit_times"
    /\ UNCHANGED <<inputs, status, exc, fivemin, full, shieldrate, orbit, marks,
                   legend, harness>>

\* parse_orbits, the file missing
OrbitsMissing ==
    /\ pc = "orbits"
    /\ FOrbit \notin files
    /\ Exit1("MSID CSV file not present")
    /\ UNCHANGED <<inputs, parsed, exc, fivemin, full, msid, shieldrate, orbit,
                   marks, legend, harness>>

\* parse_orbits, the rest: the two conversions and the record; then main
\* prints the number of passages
OrbitsConvert ==
    /\ pc = "orbit_times"
    /\ LET radzone_entry == convert_orbit_time(msid.start_radzone)
           radzone_exit  == convert_orbit_time(msid.stop_radzone)
       IN  IF ~radzone_entry.ok
           THEN Uncaught(radzone_entry.exc) /\ UNCHANGED <<orbit, stdout>>
           ELSE IF ~radzone_exit.ok
           THEN Uncaught(radzone_exit.exc) /\ UNCHANGED <<orbit, stdout>>
           ELSE /\ orbit' = Orbit(radzone_entry.val, radzone_exit.val)
                /\ stdout' = Append(stdout, "There have been N radzone passages")
                /\ pc' = "makeplot"
                /\ UNCHANGED <<status, exc>>
    /\ UNCHANGED <<inputs, parsed, fivemin, full, msid, shieldrate, marks, legend, harness>>

\* the label given to every one of the repeated marks
FirstLabel_Every(i, label) == label

\* the label of the i-th (from 0) of the repeated marks
FirstLabel(i, label) == IF i = 0 THEN label ELSE ""

\* the three marks with the exit line placed at the entry
PassageMarks_ExitAtEntry(i, entry, exit) ==
    << [kind |-> "axvline", x |-> entry, color |-> "entry_color",
        label |-> IF i = 0 THEN "Radzone Entry" ELSE ""],
       [kind |-> "axvline", x |-> entry, color |-> "exit_color",
        label |-> IF i = 0 THEN "Radzone Exit" ELSE ""],
       [kind |-> "axvspan", xmin |-> entry, xmax |-> exit, color |-> "gray",
        label |-> IF i = 0 THEN "Radzone Passage" ELSE ""] >>

\* the three marks the loop of makeplot draws for the i-th (from 0) pair
PassageMarks(i, entry, exit) ==
    << [kind |-> "axvline", x |-> entry, color |-> "entry_color",
        label |-> FirstLabel(i, "Radzone Entry")],
       [kind |-> "axvline", x |-> exit, color |-> "exit_color",
        label |-> FirstLabel(i, "Radzone Exit")],
       [kind |-> "axvspan", xmin |-> entry, xmax |-> exit, color |-> "gray",
        label |-> FirstLabel(i, "Radzone Passage")] >>

\* the pairs zip(orbit["Radzone Entry"], orbit["Radzone Exit"]) yields
ZipLen(o) == IF Len(o["Radzone Entry"]) < Len(o["Radzone Exit"]) THEN Len(o["Radzone Entry"]) ELSE Len(o["Radzone Exit"])

\* the pairs the loop has been through: three marks each
LoopIndex == Len(marks) \div 3

\* one pass of a loop that takes the pair off the front of the two lists
MakeplotPassage_Pops ==
    /\ pc = "makeplot"
    /\ ZipLen(orbit) > 0
    /\ marks' = marks \o PassageMarks(LoopIndex, Head(orbit["Radzone Entry"]), Head(orbit["Radzone Exit"]))
    /\ orbit' = Orbit(Tail(orbit["Radzone Entry"]), Tail(orbit["Radzone Exit"]))
    /\ UNCHANGED <<inputs, pc, parsed, stdout, status, exc, fivemin, full, msid,
                   shieldrate, legend, harness>>

\* makeplot: one pass of the loop over the passages
MakeplotPassage ==
    /\ pc = "makeplot"
    /\ LoopIndex < ZipLen(orbit)
    /\ LET i == LoopIndex
       IN  marks' = marks \o PassageMarks(i, orbit["Radzone Entry"][i + 1], orbit["Radzone Exit"][i + 1])
    /\ UNCHANGED <<inputs, pc, parsed, stdout, status, exc, fivemin, full, msid,
                   shieldrate, orbit, legend, harness>>

\* the labels of the marks that have one, as ax.legend() collects them
RECURSIVE Labels(_)
Labels(ms) ==
    IF ms = <<>> THEN <<>>
    ELSE (IF ms[1].label # "" THEN <<ms[1].label>> ELSE <<>>) \o Labels(Tail(ms))

FinalMarks ==
    << [kind |-> "axhline", y |-> Threshold, color |-> "gray",
        label |-> "SCS 107 Threshold (65,000 cps)"],
       [kind |-> "plot_date", x |-> shieldrate["Time"], y |-> shieldrate["Rate"],
        label |-> "HRC Shield Rate (2SHEV1RT), 5 minute"],
       [kind |-> "plot_date", x |-> shieldrate["Full Time"], y |-> shieldrate["Full Rate"],
        label |-> "HRC Shield Rate (2SHEV1RT), Full resolution"] >>

\* makeplot after the loop: the threshold, the two rate series, the legend,
\* the show; main returns and the process ends with status 0
MakeplotFinish ==
    /\ pc = "makeplot"
    /\ LoopIndex >= ZipLen(orbit)
    /\ marks' = marks \o FinalMarks
    /\ legend' = Labels(marks \o FinalMarks)
    /\ stdout' = stdout \o <<"Plot constructed, showing now", "Finished in T seconds">>
    /\ status' = 0
    /\ pc' = "exited"
    /\ UNCHANGED <<inputs, parsed, exc, fivemin, full, msid, shieldrate, orbit, harness>>

Next ==
    \/ ShieldrateRead
    \/ ShieldrateMissing
    \/ ShieldrateConvert
    \/ OrbitsRead
    \/ OrbitsMissing
    \/ OrbitsConvert
    \/ MakeplotPassage
    \/ MakeplotFinish

Spec == Init /\ [][Next]_vars

(***************************************************************************)
(* The converters called on their own: convert_chandra_time on a sequence  *)
(* of CXC times, convert_orbit_time on a sequence of strings, and both on  *)
(* the two encodings of one instant.                                       *)
(***************************************************************************)
InitTime ==
    /\ files = {}
    /\ csv5 = <<>>
    /\ csvFull = <<>>
    /\ csvOrbit = <<>>
    /\ InitProgram
    /\ call \in [fn : {"convert_chandra_time"}, arg : SeqsUpTo(CxcSamples, MaxTimes)]
         \cup [fn : {"convert_orbit_time"}, arg : SeqsUpTo(OrbitStrings, MaxTimes)]
         \cup [fn : {"instant"}, arg : Instants]
    /\ ret = [done |-> FALSE]

program == <<pc, parsed, stdout, status, exc, fivemin, full, msid, shieldrate,
             orbit, marks, legend>>

CallConvertChandraTime ==
    /\ call.fn = "convert_chandra_time"
    /\ ~ret.done
    /\ LET rawtimes == ReadFloats(call.arg)
       IN  ret' = [done |-> TRUE, raw |-> rawtimes, out |-> convert_chandra_time(rawtimes)]
    /\ UNCHANGED <<inputs, program, call>>

CallConvertOrbitTime ==
    /\ call.fn = "convert_orbit_time"
    /\ ~ret.done
    /\ ret' = [done |-> TRUE, raw |-> call.arg, out |-> convert_orbit_time(call.arg)]
    /\ UNCHANGED <<inputs, program, call>>

CallBoth ==
    /\ call.fn = "instant"
    /\ ~ret.done
    /\ ret' = [done |-> TRUE,
               cxc |-> convert_chandra_time(<<ReadFloat(InstantCxc(call.arg))>>),
               cal |-> convert_orbit_time(<<InstantString(call.arg)>>)]
    /\ UNCHANGED <<inputs, program, call>>

NextTime ==
    \/ CallConvertChandraTime
    \/ CallConvertOrbitTime
    \/ CallBoth

SpecTime == InitTime /\ [][NextTime]_vars

(***************************************************************************)
(* Properties of main().                                                   *)
(***************************************************************************)
Last(q) == q[Len(q)]

Exited == pc = "exited"

\* main ran to its end: makeplot returned
PlotDone == pc = "exited" /\ status = 0

RateFilesFound == F5min \in files /\ FFull \in files

MissingMessages == {"I can't find both of the MSIDs needed", "MSID CSV file not present"}

\* C1, as stated: whichever of the three input files is absent, the process
\* prints a message and exits with status 1, and ascii.read has been called
\* on no file at all.
C1_Original ==
    \A f \in FileNames :
        (f \notin files /\ Exited) =>
            /\ status = 1
            /\ stdout # <<>> /\ Last(stdout) \in MissingMessages
            /\ parsed = {}

\* C1, amended: no absent file is ever read.  When a rate file is absent the
\* process prints its message and exits with status 1 having called
\* ascii.read on no file.  When only the orbit table is absent the process
\* exits with status 1 after both rate files have been read (and only those),
\* with the message "MSID CSV file not present" unless an empty rate table
\* has ended it before with an IndexError.
C1_Amended ==
    /\ parsed \subseteq files
    /\ (Exited /\ ~RateFilesFound) =>
            /\ status = 1
            /\ exc = ""
            /\ stdout = <<"I can't find both of the MSIDs needed">>
            /\ parsed = {}
    /\ (Exited /\ RateFilesFound /\ FOrbit \notin files) =>
            /\ status = 1
            /\ parsed = {F5min, FFull}
            /\ exc \in {"", "IndexError"}
            /\ exc = "" => Last(stdout) = "MSID CSV file not present"
            /\ exc = "IndexError" => (fivemin.times = <<>> \/ full.times = <<>>)

C1_Witness ==
    /\ Exited /\ RateFilesFound /\ FOrbit \notin files
    /\ Last(stdout) = "MSID CSV file not present"
    /\ parsed = {F5min, FFull}

CountLabel(l) == Cardinality({i \in DOMAIN marks : marks[i].label = l})

CountKind(k) == Cardinality({i \in DOMAIN marks : marks[i].kind = k})

PassageLabels == {"Radzone Entry", "Radzone Exit", "Radzone Passage"}

\* C2, as stated: whatever the number N >= 0 of passages, the finished chart
\* has exactly one mark labelled "Radzone Entry", one "Radzone Exit" and one
\* "Radzone Passage".
C2_Original ==
    PlotDone => \A l \in PassageLabels : CountLabel(l) = 1

\* C2, amended: the chart never has more than one mark with each of the
\* three labels; the finished chart has exactly one of each when there is
\* at least one passage and none when there is no passage; the labelled
\* marks are those of the first passage and every other mark of a passage
\* has the empty label.
C2_Amended ==
    /\ \A l \in PassageLabels : CountLabel(l) <= 1
    /\ PlotDone =>
         \A l \in PassageLabels :
            CountLabel(l) = IF ZipLen(orbit) >= 1 THEN 1 ELSE 0
    /\ \A i \in DOMAIN marks :
         marks[i].kind \in {"axvline", "axvspan"} =>
            IF i <= 3 THEN marks[i].label \in PassageLabels ELSE marks[i].label = ""

C2_Witness ==
    /\ PlotDone
    /\ Len(orbit["Radzone Entry"]) = LongRows
    /\ \A l \in PassageLabels : CountLabel(l) = 1
    /\ CountKind("axvline") = 2 * LongRows

\* YYYY:DOY:HH:MM:SS.ffffff, every field of its full width
FixedWidth(s) ==
    /\ Len(s) = 24
    /\ \A p \in 1..24 :
         IF p \in {5, 9, 12, 15} THEN s[p] = ":"
         ELSE IF p = 18 THEN s[p] = "."
         ELSE IsDigit(s[p])

OrbitValues == {csvOrbit[i].start_radzone : i \in DOMAIN csvOrbit}
                 \cup {csvOrbit[i].stop_radzone : i \in DOMAIN csvOrbit}

\* C3, as stated: a value of either column that is not of the form
\* YYYY:DOY:HH:MM:SS.ffffff fails the run: makeplot is reached only when
\* every value is of that form.
C3_Original ==
    (pc = "makeplot" \/ PlotDone) => \A v \in OrbitValues : FixedWidth(v)

\* C3, amended: every value of both columns is parsed with the format
\* %Y:%j:%H:%M:%S.%f, which also takes a day of year of 1 to 3 digits, hours,
\* minutes and seconds of 1 or 2 digits and a fraction of 1 to 6 digits.  If
\* that parse rejects any value of either column the run fails with status
\* 1, returns no orbit record and draws nothing; if makeplot is reached, the
\* record holds the parse of every row in its place: none is skipped, none
\* replaced.
C3_Amended ==
    /\ (pc = "makeplot" \/ PlotDone) =>
         /\ Len(orbit["Radzone Entry"]) = Len(csvOrbit) /\ Len(orbit["Radzone Exit"]) = Len(csvOrbit)
         /\ \A i \in DOMAIN csvOrbit :
              /\ strptime(csvOrbit[i].start_radzone).ok
              /\ strptime(csvOrbit[i].stop_radzone).ok
              /\ orbit["Radzone Entry"][i] = strptime(csvOrbit[i].start_radzone).dt
              /\ orbit["Radzone Exit"][i] = strptime(csvOrbit[i].stop_radzone).dt
    /\ (Exited /\ \E v \in OrbitValues : ~strptime(v).ok) =>
         /\ status = 1
         /\ orbit = NoOrbit
         /\ marks = <<>>
         /\ FOrbit \in parsed => exc = "ValueError"

C3_Witness ==
    /\ Exited /\ exc = "ValueError" /\ status = 1
    /\ Len(csvOrbit) = 2
    /\ strptime(csvOrbit[1].start_radzone).ok /\ strptime(csvOrbit[1].stop_radzone).ok
    /\ ~FixedWidth(csvOrbit[1].start_radzone)
    /\ strptime(csvOrbit[2].start_radzone).ok /\ ~strptime(csvOrbit[2].stop_radzone).ok

\* every stage ran: the three reads, the two records, the chart, the legend
Completed ==
    /\ parsed = FileNames
    /\ Len(shieldrate["Time"]) = Len(csv5) /\ Len(shieldrate["Full Time"]) = Len(csvFull)
    /\ Len(orbit["Radzone Entry"]) = Len(csvOrbit)
    /\ Len(marks) = 3 * Len(csvOrbit) + 3
    /\ Last(stdout) = "Finished in T seconds"

\* C6, as stated: a run ends either with status 0 after every stage, or with
\* status 1 because a required input file is absent, and status 1 has no
\* other cause.
C6_Original ==
    Exited =>
        /\ \/ status = 0 /\ Completed
           \/ status = 1 /\ files # FileNames
        /\ status = 1 => files # FileNames

\* the stages main() has still to go through, and the passes the loop of
\* makeplot has still to make
StagesLeft ==
    CASE pc = "main" -> 5
      [] pc = "shieldrate" -> 4
      [] pc = "orbits" -> 3
      [] pc = "orbit_times" -> 2
      [] pc = "makeplot" -> 1
      [] pc = "exited" -> 0

PassesLeft == IF pc = "makeplot" THEN ZipLen(orbit) - LoopIndex ELSE 0

\* how a run has ended, when it has
C6_Ways ==
    /\ status \in {-1, 0, 1}
    /\ status = -1 <=> ~Exited
    /\ pc \in {"main", "shieldrate", "orbits", "orbit_times", "makeplot", "exited"}
    /\ Exited =>
         \/ status = 0 /\ exc = "" /\ files = FileNames /\ Completed
         \/ /\ status = 1 /\ exc = "" /\ files # FileNames
            /\ Last(stdout) \in MissingMessages
         \/ /\ status = 1 /\ exc \in {"IndexError", "ValueError"}
            /\ RateFilesFound
            /\ Last(stdout) \notin MissingMessages

\* C6, amended: every step of a run brings its end nearer (a stage is left,
\* or the loop of makeplot has a pass less to make), and a run ends in
\* exactly one of three ways: with status 0 after every stage; with status 1
\* and a message because a required input file is absent; or with status 1
\* because of an exception nothing catches (the IndexError of an empty rate
\* table, the ValueError of an orbit time that does not parse).
C6_Amended ==
    /\ []C6_Ways
    /\ [][ \/ StagesLeft' < StagesLeft
           \/ StagesLeft' = StagesLeft /\ PassesLeft' < PassesLeft ]_vars

C6_Witness ==
    /\ Exited /\ status = 1 /\ exc = "ValueError"
    /\ files = FileNames

\* C8: for N passages the finished chart has exactly N bands and 2N vertical
\* lines: for the i-th row, in this order, a line in the entry colour at its
\* entry, a line in the exit colour at its exit and a band from its entry to
\* its exit, the entry and the exit being those of the same row of the
\* table; and it has the threshold line at 65,000 once.
C8_Theorem ==
    PlotDone =>
        LET N == Len(csvOrbit)
        IN  /\ CountKind("axvspan") = N
            /\ CountKind("axvline") = 2 * N
            /\ \A i \in 1..N :
                 LET entry == strptime(csvOrbit[i].start_radzone).dt
                     exit  == strptime(csvOrbit[i].stop_radzone).dt
                 IN  /\ marks[3 * i - 2].kind = "axvline"
                     /\ marks[3 * i - 2].x = entry
                     /\ marks[3 * i - 2].color = "entry_color"
                     /\ marks[3 * i - 1].kind = "axvline"
                     /\ marks[3 * i - 1].x = exit
                     /\ marks[3 * i - 1].color = "exit_color"
                     /\ marks[3 * i].kind = "axvspan"
                     /\ marks[3 * i].xmin = entry
                     /\ marks[3 * i].xmax = exit
            /\ CountKind("axhline") = 1
            /\ \A i \in DOMAIN marks : marks[i].kind = "axhline" => marks[i].y = 65000

C8_Witness ==
    /\ PlotDone
    /\ Len(csvOrbit) = 2
    /\ csvOrbit[1] # csvOrbit[2]
    /\ CountKind("axvspan") = 2

\* C10: once read, the tables the converters take their arguments from do
\* not change; once parse_shieldrate has returned its record nothing changes
\* it, and once parse_orbits has returned its record nothing changes it: in
\* particular no step of makeplot does.
C10_Theorem ==
    [][ /\ pc # "main" => fivemin' = fivemin /\ full' = full
        /\ pc \notin {"main", "shieldrate"} => shieldrate' = shieldrate
        /\ pc \notin {"main", "shieldrate", "orbits"} => msid' = msid
        /\ pc \notin {"main", "shieldrate", "orbits", "orbit_times"} => orbit' = orbit
      ]_vars

C10_Witness ==
    /\ PlotDone
    /\ Len(shieldrate["Time"]) = 2 /\ Len(shieldrate["Full Time"]) = 1
    /\ Len(orbit["Radzone Entry"]) = 2
    /\ Len(marks) = 9

(***************************************************************************)
(* Properties of the converters.                                           *)
(***************************************************************************)
ChandraDone == ret.done /\ call.fn = "convert_chandra_time"

OrbitDone == ret.done /\ call.fn = "convert_orbit_time"

InstantDone == ret.done /\ call.fn = "instant"

\* a number of days, in microseconds
MicrosOfDays(d) == DMulSmall(DMulSmall(DMulSmall(d, SEC_PER_DAY), 1000), 1000)

\* the days since 0001-01-01 plus one of a datetime, in microseconds: what
\* the date axis places it at
MicrosOfDatetime(d) ==
    LET secs == BAdd(BMulSmall(FromNat(d.ordinal), SEC_PER_DAY), FromNat(SecondOfDay(d)))
        us   == BAdd(BMulSmall(BMulSmall(secs, 1000), 1000), FromNat(d.microsecond))
    IN  DMake(FALSE, BShl(us, FracBits))

\* the distance in microseconds between the two conversions of the instant
InstantGap ==
    DAbs(DSub(MicrosOfDays(ret.cxc.val[1]), MicrosOfDatetime(ret.cal.val[1])))

Millionfold(d) == DMulSmall(DMulSmall(d, 1000), 1000)

\* C5: for a non-empty sequence of CXC times, element i of the result is
\* start_offset + (raw[i] - raw[0]) / 86400, start_offset being the days of
\* (seconds from 1970 to 1998) + raw[0]; and it is less than 1e-6 day from
\* the conversion of raw[i] on its own through the 1970 epoch.
C5_Theorem ==
    (ChandraDone /\ Len(ret.raw) >= 1) =>
        /\ ret.out.ok
        /\ \A i \in 1..Len(ret.raw) :
             LET epoch_delta  == DNat((YearStartOrdinal(1998) - YearStartOrdinal(1970)) * 86400)
                 start_offset == epoch2num(FAdd(epoch_delta, ret.raw[1]))
                 alone        == epoch2num(FAdd(epoch_delta, ret.raw[i]))
             IN  /\ ret.out.val[i]
                      = FAdd(start_offset, FDivSmall(FSub(ret.raw[i], ret.raw[1]), 86400))
                 /\ DLess(Millionfold(DAbs(DSub(ret.out.val[i], alone))), DNat(1))

C5_Witness ==
    /\ ChandraDone
    /\ Len(ret.raw) = 3
    /\ ret.out.ok
    /\ DLess(ret.raw[3], ret.raw[1]) /\ DLess(ret.raw[1], ret.raw[2])
    /\ ret.out.val[2] # ret.out.val[1]

\* C7: called on a single CXC time, convert_chandra_time does not fail and
\* returns one element, the start offset.
C7_Theorem ==
    (ChandraDone /\ Len(ret.raw) = 1) =>
        /\ ret.out.ok
        /\ Len(ret.out.val) = 1
        /\ ret.out.val[1]
             = epoch2num(FAdd(DNat((YearStartOrdinal(1998) - YearStartOrdinal(1970)) * 86400),
                              ret.raw[1]))

C7_Witness ==
    /\ ChandraDone
    /\ Len(ret.raw) = 1
    /\ ret.out.ok
    /\ Len(ret.out.val) = 1

\* the characters of the orbit times, in the order of their code points
CharOrder == <<" ", "-", ".">> \o DigitChars \o <<":", "a">>

CharRank(c) == CHOOSE n \in 1..Len(CharOrder) : CharOrder[n] = c

\* a <= b, as strings compare
StrLeq(a, b) ==
    \/ a = b
    \/ \E k \in 1..(Len(b)) :
          /\ \A m \in 1..(k - 1) : m <= Len(a) /\ a[m] = b[m]
          /\ \/ k = Len(a) + 1
             \/ k <= Len(a) /\ CharRank(a[k]) < CharRank(b[k])

\* the day of year a fixed-width string names exists in its year
DayInYear(s) == NumVal(SubSeq(s, 6, 8)) <= DaysInYear(NumVal(SubSeq(s, 1, 4)))

\* both converters: as many elements out as in, element i from element i
\* (and the first, as anchor, in convert_chandra_time)
C9_InPlace ==
    /\ (ChandraDone /\ ret.out.ok) =>
         /\ Len(ret.out.val) = Len(ret.raw)
         /\ \A i \in 1..Len(ret.raw) :
              \E anchored \in {FDivSmall(FSub(ret.raw[i], ret.raw[1]), 86400)} :
                 ret.out.val[i] = FAdd(anchored, plotdate_start(ret.raw[1]))
    /\ (OrbitDone /\ ret.out.ok) =>
         /\ Len(ret.out.val) = Len(ret.raw)
         /\ \A i \in 1..Len(ret.raw) :
              /\ strptime(ret.raw[i]).ok
              /\ ret.out.val[i] = strptime(ret.raw[i]).dt

\* convert_chandra_time keeps the order of the times
C9_ChandraOrder ==
    (ChandraDone /\ ret.out.ok) =>
        \A i, j \in 1..Len(ret.raw) :
            DLeq(ret.raw[i], ret.raw[j]) => DLeq(ret.out.val[i], ret.out.val[j])

\* C9, as stated: both converters keep length and place, and
\* raw[i] <= raw[j] implies converted[i] <= converted[j], for the CXC times
\* and for the strings of the orbit table alike.
C9_Original ==
    /\ C9_InPlace
    /\ C9_ChandraOrder
    /\ (OrbitDone /\ ret.out.ok) =>
         \A i, j \in 1..Len(ret.raw) :
            StrLeq(ret.raw[i], ret.raw[j]) => DatetimeLeq(ret.out.val[i], ret.out.val[j])

\* C9, amended: both converters keep length and place; convert_chandra_time
\* keeps the order of the times; convert_orbit_time keeps the order of the
\* strings that have every field of its full width and name a day that
\* exists in its year (a field that is not zero-padded, or day 366 of a
\* year of 365 days, is accepted and can convert out of order).
C9_Amended ==
    /\ C9_InPlace
    /\ C9_ChandraOrder
    /\ (OrbitDone /\ ret.out.ok) =>
         \A i, j \in 1..Len(ret.raw) :
            ( /\ FixedWidth(ret.raw[i]) /\ DayInYear(ret.raw[i])
              /\ FixedWidth(ret.raw[j]) /\ DayInYear(ret.raw[j])
              /\ StrLeq(ret.raw[i], ret.raw[j]) )
            => DatetimeLeq(ret.out.val[i], ret.out.val[j])

C9_Witness ==
    /\ OrbitDone /\ ret.out.ok
    /\ Len(ret.raw) = 3
    /\ \A i \in 1..3 : FixedWidth(ret.raw[i]) /\ DayInYear(ret.raw[i])
    /\ ~StrLeq(ret.raw[1], ret.raw[2])
    /\ ~DatetimeLeq(ret.out.val[1], ret.out.val[2])
    /\ StrLeq(ret.raw[1], ret.raw[3])

====
